---- MODULE Spec2Model ----
(***************************************************************************)
(* AegisTest: the signature extractor (parse_function_definition) and the  *)
(* input generator (generate_test_inputs) of app/utils.py, with the two    *)
(* callers that drive them: main() of app/main.py and the direct calls of  *)
(* tests/test_core.py.                                                     *)
(*                                                                         *)
(* Python strings are TLA+ strings.  A Python value is a record tagged by  *)
(* its field k.  A float is counted in units of 1/FloatUnit, so that the   *)
(* code's real divisions by 4 and by 2 are exact.  A randomly filled       *)
(* collection is described by its element draw and its number of draws.    *)
(* An exception that leaves generate_test_inputs ends the call in          *)
(* pc = "raised" with its name in err.                                     *)
(***************************************************************************)
EXTENDS Integers, Sequences, FiniteSets, TLC

VARIABLES pyAst, pc, code, ret, function_name, parameters,
          cfg, t, p, inputs, test_inputs, result, err

vars == <<pyAst, pc, code, ret, function_name, parameters,
          cfg, t, p, inputs, test_inputs, result, err>>

-----------------------------------------------------------------------------
(* Bounds of the model. *)

MaxArgs == 2
MaxStmts == 2
MaxParams == 2
MaxTests == 2
MaxStrLen == 1

-----------------------------------------------------------------------------
(* Python values. *)

PyNone == [k |-> "None"]
IntV(i) == [k |-> "int", i |-> i]
FloatV(f) == [k |-> "float", f |-> f]
StrV(s) == [k |-> "str", s |-> s]
BoolV(b) == [k |-> "bool", b |-> b]
TupleV(a, b) == [k |-> "tuple2", fst |-> a, snd |-> b]

Max(a, b) == IF a >= b THEN a ELSE b
Min(a, b) == IF a <= b THEN a ELSE b

-----------------------------------------------------------------------------
(* Source text, as the declarations it holds.  A parameter is declared    *)
(* with a kind, an annotation and a default expression ("" for none).      *)

ArgNames == <<"a", "b", "c", "d">>

NameAnn(id) == [form |-> "name", id |-> id, outer |-> "", inner |-> <<>>]
NoAnn == [form |-> "none", id |-> "", outer |-> "", inner |-> <<>>]
AttrAnn == [form |-> "attr", id |-> "", outer |-> "", inner |-> <<>>]
SubAnn(outer, inner) == [form |-> "sub", id |-> "", outer |-> outer, inner |-> inner]

\* Inner elements of a subscript: a bare name, or "" for anything else
\* (a constant, a nested subscript).  outer is a bare name, or "" for an
\* attribute such as typing.List.
SrcAnnotations ==
    { NoAnn, NameAnn("int"), AttrAnn,
      SubAnn("list", <<"int">>), SubAnn("Optional", <<"int">>),
      SubAnn("dict", <<"str", "int">>), SubAnn("", <<"">>) }

ParamKinds == {"posonly", "normal", "vararg", "kwonly", "kwarg"}

KindRank(kind) ==
    CASE kind = "posonly" -> 1
      [] kind = "normal" -> 2
      [] kind = "vararg" -> 3
      [] kind = "kwonly" -> 4
      [] kind = "kwarg" -> 5

SrcDefaults == {"", "None", "1"}

\* Only the ordinary parameters are given every annotation: of the others
\* the code reads nothing but the defaults of the positional-only ones.
SrcParamChoices ==
    { [kind |-> "normal", ann |-> an, dflt |-> df] :
        an \in SrcAnnotations, df \in SrcDefaults }
    \cup { [kind |-> kd, ann |-> NoAnn, dflt |-> df] :
              kd \in {"posonly", "kwonly"}, df \in {"", "1"} }
    \cup { [kind |-> kd, ann |-> NoAnn, dflt |-> ""] : kd \in {"vararg", "kwarg"} }

\* The grammar's rules for a parameter list.
ValidSignature(ps) ==
    /\ \A i \in 1..Len(ps) : \A j \in 1..Len(ps) :
          i < j => /\ KindRank(ps[i].kind) <= KindRank(ps[j].kind)
                   /\ ps[i].kind \in {"vararg", "kwarg"} => ps[i].kind # ps[j].kind
                   /\ ( /\ ps[i].kind \in {"posonly", "normal"}
                        /\ ps[j].kind \in {"posonly", "normal"}
                        /\ ps[i].dflt # "" ) => ps[j].dflt # ""
    /\ \A i \in 1..Len(ps) : ps[i].kind \in {"vararg", "kwarg"} => ps[i].dflt = ""

SrcSignatures ==
    UNION { { ps \in [1..n -> SrcParamChoices] : ValidSignature(ps) } : n \in 0..MaxArgs }

AssignStmt == [stmt |-> "assign", name |-> "", params |-> <<>>]
DefStmt(how, ps) == [stmt |-> how, name |-> "f", params |-> ps]

\* A module body of at most MaxStmts statements: statements that are not
\* definitions and, at any place among them, at most one function.
SrcBodies(fn) ==
    UNION { { b \in [1..n -> {AssignStmt, fn}] :
                Cardinality({ i \in 1..n : b[i] = fn }) <= 1 } : n \in 0..MaxStmts }

SrcFunctions ==
    { DefStmt(how, ps) : how \in {"def", "async def"}, ps \in SrcSignatures }

SyntaxErrorText == [valid |-> FALSE, body |-> <<>>]

SrcTexts ==
    {SyntaxErrorText} \cup
    { [valid |-> TRUE, body |-> b] : b \in UNION { SrcBodies(fn) : fn \in SrcFunctions } }

-----------------------------------------------------------------------------
(* ast.parse: the syntax tree of a valid text.  Until Python 3.8 the      *)
(* slice of a Subscript is wrapped in an ast.Index node; from 3.9 on it is *)
(* the expression itself, and no node is an instance of ast.Index.  pyAst  *)
(* records which of the two the interpreter running the call produces.     *)

PyAstVersions == {"index", "direct"}

ExprNode(id) ==
    IF id = "" THEN [node |-> "Constant", id |-> "", elts |-> <<>>]
    ELSE [node |-> "Name", id |-> id, elts |-> <<>>]

SliceNode(inner, ver) ==
    LET expr == IF Len(inner) = 1 THEN ExprNode(inner[1])
                ELSE [node |-> "Tuple", id |-> "",
                      elts |-> [i \in 1..Len(inner) |-> ExprNode(inner[i])]]
    IN IF ver = "index" THEN [node |-> "Index", value |-> expr] ELSE expr

AnnotationNode(an, ver) ==
    CASE an.form = "none" -> PyNone
      [] an.form = "name" -> [node |-> "Name", id |-> an.id]
      [] an.form = "attr" -> [node |-> "Attribute"]
      [] an.form = "sub" ->
            [node |-> "Subscript",
             value |-> IF an.outer = "" THEN [node |-> "Attribute"]
                       ELSE [node |-> "Name", id |-> an.outer],
             slice |-> SliceNode(an.inner, ver)]

\* node.args of a definition: args holds the ordinary parameters only,
\* defaults the default expressions of the positional ones.
ArgumentsNode(ps, ver) ==
    LET idx == [i \in 1..Len(ps) |-> i]
        IsArg(i) == ps[i].kind = "normal"
        HasDefault(i) == ps[i].kind \in {"posonly", "normal"} /\ ps[i].dflt # ""
        argIdx == SelectSeq(idx, IsArg)
        defIdx == SelectSeq(idx, HasDefault)
    IN [args |-> [j \in 1..Len(argIdx) |->
                    [arg |-> ArgNames[argIdx[j]],
                     annotation |-> AnnotationNode(ps[argIdx[j]].ann, ver)]],
        defaults |-> [j \in 1..Len(defIdx) |->
                        [node |-> "Constant", value |-> ps[defIdx[j]].dflt]]]

StmtNode(s, ver) ==
    CASE s.stmt = "def" ->
            [type |-> "FunctionDef", name |-> s.name, args |-> ArgumentsNode(s.params, ver)]
      [] s.stmt = "async def" ->
            [type |-> "AsyncFunctionDef", name |-> s.name, args |-> ArgumentsNode(s.params, ver)]
      [] OTHER -> [type |-> "Assign"]

\* The nodes of the tree in ast.walk order.
AstWalk(src, ver) == [i \in 1..Len(src.body) |-> StmtNode(src.body[i], ver)]

-----------------------------------------------------------------------------
(* parse_function_definition *)

RECURSIVE JoinCommaSpace(_)
JoinCommaSpace(parts) ==
    IF Len(parts) = 0 THEN ""
    ELSE IF Len(parts) = 1 THEN parts[1]
    ELSE parts[1] \o ", " \o JoinCommaSpace(Tail(parts))

NameOrAny(expr) == IF expr.node = "Name" THEN expr.id ELSE "any"

DataType(annotation) ==
    IF annotation = PyNone THEN "any"
    ELSE IF annotation.node = "Subscript" THEN
        LET base_type == NameOrAny(annotation.value)
            slice == annotation.slice
        IN IF slice.node = "Index" THEN
                base_type \o "[" \o NameOrAny(slice.value) \o "]"
           ELSE IF slice.node = "Tuple" THEN
                base_type \o "[" \o
                JoinCommaSpace([i \in 1..Len(slice.elts) |-> NameOrAny(slice.elts[i])])
                \o "]"
           ELSE base_type
    ELSE NameOrAny(annotation)

DefaultSlotsFront(n, defaults) ==
    defaults \o [i \in 1..Max(n - Len(defaults), 0) |-> PyNone]

\* [None] * (len(args) - len(defaults)) + defaults
DefaultSlots(n, defaults) ==
    [i \in 1..Max(n - Len(defaults), 0) |-> PyNone] \o defaults

ParameterOf(arg, default) ==
    LET data_type == DataType(arg.annotation)
    IN [name |-> arg.arg,
        type |-> IF default # PyNone THEN "Optional[" \o data_type \o "]" ELSE data_type]

FunctionParameters(node) ==
    LET slots == DefaultSlots(Len(node.args.args), node.args.defaults)
    IN [i \in 1..Min(Len(node.args.args), Len(slots)) |->
            ParameterOf(node.args.args[i], slots[i])]

FunctionDefs(nodes) == { i \in 1..Len(nodes) : nodes[i].type = "FunctionDef" }

\* The value the call returns; a SyntaxError is the only exception caught.
parse_function_definition(src, ver) ==
    IF ~src.valid THEN TupleV(PyNone, PyNone)
    ELSE LET nodes == AstWalk(src, ver)
             found == FunctionDefs(nodes)
         IN IF found = {} THEN PyNone
            ELSE LET node == nodes[CHOOSE i \in found : \A j \in found : i <= j]
                 IN TupleV(StrV(node.name), FunctionParameters(node))

-----------------------------------------------------------------------------
(* generate_test_inputs: the names and the random draws it uses. *)

FloatUnit == 4

\* The names utils.py binds at module level (its imports).
ModuleNames == {"ast", "random", "List", "Dict", "Union", "Optional", "Set", "Tuple"}

NameDefined(n) == n \in ModuleNames

\* float(i)
ToFloat(i) == i * FloatUnit

\* random.randint(a, b): every integer of a..b; it raises ValueError when a > b.
RandInt(a, b) == a..b
RandIntRaises(a, b) == a > b

\* random.uniform(a, b): a float between a and b, whichever is the larger; of
\* the draws the two ends and the middle are kept.
Uniform(a, b) == { a, (a + b) \div 2, b }

\* ''.join(random.choices(string.ascii_letters, k=n)), over two of the letters.
RECURSIVE RandomLetters(_)
RandomLetters(n) ==
    IF n <= 0 THEN {""}
    ELSE { c \o w : c \in {"a", "Z"}, w \in RandomLetters(n - 1) }

\* A collection filled by n draws; draw names the expression drawn from.
Filled(kind, draw, n) == [k |-> kind, draw |-> draw, n |-> n]

StartsWith(s, prefix) ==
    /\ Len(s) >= Len(prefix)
    /\ SubSeq(s, 1, Len(prefix)) = prefix

\* s[start:-1]
SliceToLast(s, start) ==
    IF start + 1 <= Len(s) - 1 THEN SubSeq(s, start + 1, Len(s) - 1) ELSE ""

UpperLetters == "ABCDEFGHIJKLMNOPQRSTUVWXYZ"
LowerLetters == "abcdefghijklmnopqrstuvwxyz"

LowerChar(c) ==
    IF \E i \in 1..Len(UpperLetters) : SubSeq(UpperLetters, i, i) = c
    THEN LET i == CHOOSE i \in 1..Len(UpperLetters) : SubSeq(UpperLetters, i, i) = c
         IN SubSeq(LowerLetters, i, i)
    ELSE c

RECURSIVE ToLower(_)
ToLower(s) ==
    IF Len(s) = 0 THEN ""
    ELSE LowerChar(SubSeq(s, 1, 1)) \o ToLower(SubSeq(s, 2, Len(s)))

\* The part of a tag before its first "[" (the whole tag when it has none).
OuterName(tag) ==
    LET opens == { i \in 1..Len(tag) : SubSeq(tag, i, i) = "[" }
    IN IF opens = {} THEN tag
       ELSE SubSeq(tag, 1, (CHOOSE i \in opens : \A j \in opens : i <= j) - 1)

SupportedOuter == {"int", "float", "str", "bool", "list", "dict", "set", "tuple", "Optional"}

\* A dispatch by case-insensitive exact match on the outer tag.
BranchExactLower(param_type) ==
    LET low == ToLower(OuterName(param_type))
    IN IF low = "optional" THEN "Optional"
       ELSE IF low \in SupportedOuter THEN low
       ELSE "default"

\* The if/elif chain on param_type: which branch takes the parameter.
Branch(param_type) ==
    IF param_type = "int" THEN "int"
    ELSE IF param_type = "float" THEN "float"
    ELSE IF param_type = "str" THEN "str"
    ELSE IF param_type = "bool" THEN "bool"
    ELSE IF StartsWith(param_type, "list") THEN "list"
    ELSE IF StartsWith(param_type, "dict") THEN "dict"
    ELSE IF StartsWith(param_type, "set") THEN "set"
    ELSE IF StartsWith(param_type, "tuple") THEN "tuple"
    ELSE IF StartsWith(param_type, "Optional") THEN "Optional"
    ELSE "default"

\* inputs[key] = value on a dict kept in insertion order.
DictSet(d, key, value) ==
    IF \E i \in 1..Len(d) : d[i].name = key
    THEN [i \in 1..Len(d) |-> IF d[i].name = key THEN [name |-> key, value |-> value] ELSE d[i]]
    ELSE Append(d, [name |-> key, value |-> value])

DictKeys(d) == [i \in 1..Len(d) |-> d[i].name]

\* The seven alternatives of the int branch.
IntChoices(int_range) ==
    LET lo == int_range[1]
        hi == int_range[2]
    IN { lo, lo + (hi - lo) \div 4, 0, hi - (hi - lo) \div 4, hi }
       \cup RandInt(lo, lo + (hi - lo) \div 2)
       \cup RandInt(hi \div 2, hi)

IntRaises(int_range) ==
    LET lo == int_range[1]
        hi == int_range[2]
    IN \/ RandIntRaises(lo, lo + (hi - lo) \div 2)
       \/ RandIntRaises(hi \div 2, hi)

\* The seven alternatives of the float branch, which reads int_range.
FloatChoices(int_range) ==
    LET lo == ToFloat(int_range[1])
        hi == ToFloat(int_range[2])
    IN { lo, lo + (hi - lo) \div 4, 0, hi - (hi - lo) \div 4, hi }
       \cup Uniform(lo, lo + (hi - lo) \div 2)
       \cup Uniform(hi \div 2, hi)

StrChoices(string_length) ==
    {"", "a", "hello", "This is a longer string.", "special_characters!@#$%^&*()"}
    \cup RandomLetters(string_length)

-----------------------------------------------------------------------------
(* The inputs of the calls. *)

\* The ranges of the calls, scaled down from the defaults (-100, 100) and
\* (-10.0, 10.0): one around 0, one above 0 and, for the integers, one below.
\* The float ranges are in units of 1/FloatUnit: (-1.0, 1.0) and (1.0, 3.0).
IntRangeSet == { <<-2, 2>>, <<1, 3>>, <<-4, -2>> }
FloatRangeSet == { <<ToFloat(-1), ToFloat(1)>>, <<ToFloat(1), ToFloat(3)>> }

\* num_tests is 1 or the most the model runs.
AllConfigs ==
    [num_tests : {1, MaxTests}, int_range : IntRangeSet,
     float_range : FloatRangeSet, string_length : 1..MaxStrLen]

\* How many of the two ranges and the length differ from the first choice.
Moved(c) ==
    (IF c.int_range # <<-2, 2>> THEN 1 ELSE 0)
    + (IF c.float_range # <<ToFloat(-1), ToFloat(1)>> THEN 1 ELSE 0)
    + (IF c.string_length # 1 THEN 1 ELSE 0)

Configs == { c \in AllConfigs : Moved(c) <= 1 }

TypeTags ==
    { "int", "float", "str", "bool", "any",
      "list[int]", "list[str]", "dict[str, int]", "set[int]", "tuple[float]",
      "Optional[int]", "Optional[float]", "Optional[str]",
      "Int", "List[int]", "integer", "listing", "settings[x]", "dictionary" }

ParameterLists ==
    UNION { { [i \in 1..n |-> [name |-> ArgNames[i], type |-> tags[i]]] :
                tags \in [1..n -> TypeTags] } : n \in 0..MaxParams }

-----------------------------------------------------------------------------

Init ==
    /\ pyAst = "unset"
    /\ pc = "start"
    /\ code = SyntaxErrorText
    /\ ret = PyNone
    /\ function_name = PyNone
    /\ parameters = <<>>
    /\ cfg = PyNone
    /\ t = 0
    /\ p = 0
    /\ inputs = <<>>
    /\ test_inputs = <<>>
    /\ result = PyNone
    /\ err = ""

genVars == <<cfg, t, p, inputs, test_inputs, result>>

\* main.py line 19, the call: parse_function_definition(code)
Parse ==
    /\ pc = "start"
    /\ \E src \in SrcTexts : \E ver \in PyAstVersions :
          /\ pyAst' = ver
          /\ code' = src
          /\ ret' = parse_function_definition(src, ver)
    /\ pc' = "parsed"
    /\ UNCHANGED <<function_name, parameters, err>>
    /\ UNCHANGED genVars

\* main.py line 19, the assignment: function_name, parameters = <the result>.
\* Unpacking None raises TypeError.  The text and the result are not read again.
Unpack ==
    /\ pc = "parsed"
    /\ IF ret.k = "tuple2"
       THEN /\ function_name' = ret.fst
            /\ parameters' = IF ret.fst = PyNone THEN <<>> ELSE ret.snd
            /\ pc' = "unpacked"
            /\ err' = err
       ELSE /\ pc' = "failed"
            /\ err' = "TypeError"
            /\ UNCHANGED <<function_name, parameters>>
    /\ code' = SyntaxErrorText
    /\ ret' = PyNone
    /\ UNCHANGED pyAst
    /\ UNCHANGED genVars

\* main.py lines 35-36
MainNoFunction ==
    /\ pc = "unpacked"
    /\ function_name = PyNone
    /\ pc' = "done"
    /\ UNCHANGED <<pyAst, code, ret, function_name, parameters, err>>
    /\ UNCHANGED genVars

EnterGenerate(params, c) ==
    /\ parameters' = params
    /\ cfg' = c
    /\ test_inputs' = <<>>
    /\ t' = 1
    /\ p' = 1
    /\ inputs' = <<>>
    /\ pc' = "gen"
    /\ UNCHANGED <<pyAst, code, ret, result, err>>

\* main.py lines 20-30, with the ranges and the length the form starts on
MainGenerate ==
    /\ pc = "unpacked"
    /\ function_name # PyNone
    /\ \E c \in { x \in Configs : Moved(x) = 0 } : EnterGenerate(parameters, c)
    /\ UNCHANGED function_name

\* test_core.py: generate_test_inputs called on a parameter list directly
GenCall ==
    /\ pc = "start"
    /\ \E params \in ParameterLists : \E c \in Configs : EnterGenerate(params, c)
    /\ UNCHANGED function_name

AtParam(branch) ==
    /\ pc = "gen"
    /\ t <= cfg.num_tests
    /\ p <= Len(parameters)
    /\ Branch(parameters[p].type) = branch

Assign(value) ==
    /\ inputs' = DictSet(inputs, parameters[p].name, value)
    /\ p' = p + 1
    /\ UNCHANGED <<pyAst, pc, code, ret, function_name, parameters, cfg, t,
                   test_inputs, result, err>>

Raise(what) ==
    /\ pc' = "raised"
    /\ err' = what
    /\ UNCHANGED <<pyAst, code, ret, function_name, parameters>>
    /\ UNCHANGED genVars

GenInt ==
    /\ AtParam("int")
    /\ IF IntRaises(cfg.int_range) THEN Raise("ValueError")
       ELSE \E v \in IntChoices(cfg.int_range) : Assign(IntV(v))

GenFloat ==
    /\ AtParam("float")
    /\ \E v \in FloatChoices(cfg.int_range) : Assign(FloatV(v))

GenStr ==
    /\ AtParam("str")
    /\ IF NameDefined("string")
       THEN \E v \in StrChoices(cfg.string_length) : Assign(StrV(v))
       ELSE Raise("NameError")

GenBool ==
    /\ AtParam("bool")
    /\ \E v \in BOOLEAN : Assign(BoolV(v))

GenList ==
    /\ AtParam("list")
    /\ LET base_type == SliceToLast(parameters[p].type, 5)
       IN IF base_type = "int" THEN Assign(Filled("list", "randint(0, 10)", 5))
          ELSE IF base_type = "str" THEN
               IF NameDefined("string") THEN Assign(Filled("list", "letters(5)", 3))
               ELSE Raise("NameError")
          ELSE IF base_type = "float" THEN Assign(Filled("list", "uniform(0.0, 10.0)", 3))
          ELSE IF base_type = "bool" THEN Assign(Filled("list", "choice(True, False)", 3))
          ELSE Assign(Filled("list", "0", 5))

GenDict ==
    /\ AtParam("dict")
    /\ LET base_type == SliceToLast(parameters[p].type, 5)
       IN IF base_type = "str, int" THEN Assign(Filled("dict", "key1: 1, key2: 2", 2))
          ELSE Assign(Filled("dict", "", 0))

GenSet ==
    /\ AtParam("set")
    /\ LET base_type == SliceToLast(parameters[p].type, 4)
       IN IF base_type = "int" THEN Assign(Filled("set", "randint(0, 10)", 5))
          ELSE IF base_type = "str" THEN
               IF NameDefined("string") THEN Assign(Filled("set", "letters(5)", 3))
               ELSE Raise("NameError")
          ELSE Assign(Filled("set", "", 0))

GenTuple ==
    /\ AtParam("tuple")
    /\ LET base_type == SliceToLast(parameters[p].type, 5)
       IN IF base_type = "int" THEN Assign(Filled("tuple", "randint(0, 10)", 3))
          ELSE IF base_type = "str" THEN
               IF NameDefined("string") THEN Assign(Filled("tuple", "letters(5)", 3))
               ELSE Raise("NameError")
          ELSE IF base_type = "float" THEN Assign(Filled("tuple", "uniform(0.0, 10.0)", 3))
          ELSE Assign(Filled("tuple", "0", 3))

GenOptional ==
    /\ AtParam("Optional")
    /\ LET base_type == SliceToLast(parameters[p].type, 9)
       IN \/ Assign(PyNone)
          \/ IF base_type = "int" THEN
                IF RandIntRaises(cfg.int_range[1], cfg.int_range[2]) THEN Raise("ValueError")
                ELSE \E v \in RandInt(cfg.int_range[1], cfg.int_range[2]) : Assign(IntV(v))
             ELSE IF base_type = "float" THEN
                \E v \in Uniform(cfg.float_range[1], cfg.float_range[2]) : Assign(FloatV(v))
             ELSE IF base_type = "str" THEN
                IF NameDefined("string")
                THEN \E v \in RandomLetters(cfg.string_length) : Assign(StrV(v))
                ELSE Raise("NameError")
             ELSE Assign(IntV(0))

\* utils.py lines 167-170: the default branch appends and returns at once.
GenDefault ==
    /\ AtParam("default")
    /\ inputs' = DictSet(inputs, parameters[p].name, IntV(0))
    /\ test_inputs' = Append(test_inputs, inputs')
    /\ result' = [k |-> "list", items |-> test_inputs']
    /\ p' = p + 1
    /\ pc' = "returned"
    /\ UNCHANGED <<pyAst, code, ret, function_name, parameters, cfg, t, err>>

\* The inner loop is over: the next round of the outer loop starts on inputs = {}.
GenNextTest ==
    /\ pc = "gen"
    /\ t <= cfg.num_tests
    /\ p > Len(parameters)
    /\ t' = t + 1
    /\ p' = 1
    /\ inputs' = <<>>
    /\ UNCHANGED <<pyAst, pc, code, ret, function_name, parameters, cfg,
                   test_inputs, result, err>>

\* The outer loop is over and the function body ends: the call returns None.
GenFallOff ==
    /\ pc = "gen"
    /\ t > cfg.num_tests
    /\ result' = PyNone
    /\ pc' = "returned"
    /\ UNCHANGED <<pyAst, code, ret, function_name, parameters, cfg, t, p,
                   inputs, test_inputs, err>>

Next ==
    \/ Parse
    \/ Unpack
    \/ MainNoFunction
    \/ MainGenerate
    \/ GenCall
    \/ GenInt
    \/ GenFloat
    \/ GenStr
    \/ GenBool
    \/ GenList
    \/ GenDict
    \/ GenSet
    \/ GenTuple
    \/ GenOptional
    \/ GenDefault
    \/ GenNextTest
    \/ GenFallOff

Spec == Init /\ [][Next]_vars

-----------------------------------------------------------------------------
(* What the source text declares, for the statements about the extractor. *)

DefStmts(src) == { i \in 1..Len(src.body) : src.body[i].stmt = "def" }
AsyncDefStmts(src) == { i \in 1..Len(src.body) : src.body[i].stmt = "async def" }

FirstDef(src) == src.body[CHOOSE i \in DefStmts(src) : \A j \in DefStmts(src) : i <= j]

\* The declared parameters of kind "normal", as indices into the declaration.
OrdinaryIdx(fn) == { i \in 1..Len(fn.params) : fn.params[i].kind = "normal" }

\* The position in the extractor's output of the ordinary parameter declared i-th.
OutputPos(fn, i) == Cardinality({ j \in OrdinaryIdx(fn) : j <= i })

DeclaredDefaults(fn) ==
    { i \in 1..Len(fn.params) :
        fn.params[i].kind \in {"posonly", "normal"} /\ fn.params[i].dflt # "" }

\* The same text with every default expression removed.
WithoutDefaults(src) ==
    [src EXCEPT !.body =
        [i \in 1..Len(src.body) |->
            [src.body[i] EXCEPT !.params =
                [j \in 1..Len(src.body[i].params) |->
                    [src.body[i].params[j] EXCEPT !.dflt = ""]]]]]

ParsedAFunction ==
    /\ pc = "parsed"
    /\ code.valid
    /\ DefStmts(code) # {}

\* The entries of inputs are those of the parameters processed so far, in order.
Assigned == IF pc \in {"gen", "returned", "raised"} THEN 1..Len(inputs) ELSE {}

-----------------------------------------------------------------------------
(* The claims. *)

\* C1: whatever the tags and for every testCount K >= 1, generate_test_inputs
\* returns a sequence of exactly K test cases, and the keys of every case are
\* exactly the parameter names passed in, in parameter order.
C1_ExactlyKFullCases ==
    pc = "returned" =>
        /\ result.k = "list"
        /\ Len(result.items) = cfg.num_tests
        /\ \A i \in 1..Len(result.items) :
              DictKeys(result.items[i]) = [j \in 1..Len(parameters) |-> parameters[j].name]

\* C2: generate_test_inputs never fails: for every parameter list and every
\* configuration with testCount >= 1, min <= max in both ranges and
\* stringLength >= 1, the call completes without raising an error.
C2_NeverRaises ==
    pc # "raised"

\* C3: for a parameter tagged int and any range (lo, hi) with lo <= hi, every
\* value a returned test case holds for it lies in the closed interval
\* [lo, hi], also for ranges that do not contain 0 or are entirely negative.
C3_IntWithinRange ==
    ( pc = "returned" /\ result.k = "list" ) =>
        \A c \in 1..Len(result.items) : \A i \in 1..Len(result.items[c]) :
            parameters[i].type = "int" =>
                /\ cfg.int_range[1] <= result.items[c][i].value.i
                /\ result.items[c][i].value.i <= cfg.int_range[2]

\* C4: parse_function_definition returns the pair (None, None) both when the
\* text does not parse and when it parses but holds no function definition.
C4_AbsentResultIsNonePair ==
    ( /\ pc = "parsed"
      /\ \/ ~code.valid
         \/ DefStmts(code) \cup AsyncDefStmts(code) = {} )
    => ret = TupleV(PyNone, PyNone)

\* C5: in the extractor's output for a function with N positional parameters
\* and D declared defaults, the parameter at 0-based position i has the tag
\* Optional[t] if and only if i >= N - D, where t is the tag the parameter gets
\* without a default; a parameter outside that window has the tag t itself.
\* The window is the set of parameters that declare a default, whatever its value.
C5_OptionalIffInDefaultWindow ==
    ParsedAFunction =>
        LET fn == FirstDef(code)
            out == ret.snd
            bare == parse_function_definition(WithoutDefaults(code), pyAst).snd
            N == Cardinality(OrdinaryIdx(fn))
            D == Cardinality(DeclaredDefaults(fn))
        IN /\ ret.k = "tuple2"
           /\ Len(out) = N
           /\ Len(bare) = N
           /\ \A d \in OrdinaryIdx(fn) :
                 LET i == OutputPos(fn, d) - 1
                     wrapped == out[i + 1].type = "Optional[" \o bare[i + 1].type \o "]"
                 IN /\ wrapped <=> (i >= N - D)
                    /\ wrapped <=> (fn.params[d].dflt # "")
                    /\ ~wrapped => out[i + 1].type = bare[i + 1].type

\* A function of two ordinary parameters, the second with the default None and
\* no annotation, has been extracted: the first is bare, the second wrapped.
C5_Witness ==
    /\ ParsedAFunction
    /\ Len(FirstDef(code).params) = 2
    /\ OrdinaryIdx(FirstDef(code)) = {1, 2}
    /\ FirstDef(code).params[1].dflt = ""
    /\ FirstDef(code).params[2].dflt = "None"
    /\ ret.k = "tuple2"
    /\ ret.snd = << [name |-> "a", type |-> "int"], [name |-> "b", type |-> "Optional[any]"] >>

\* C6: for a valid text with exactly one function definition with N parameters,
\* parse_function_definition returns that function's name and exactly N
\* descriptors, named as declared and in declaration order.
C6_EveryParameterInOrder ==
    ( /\ pc = "parsed"
      /\ code.valid
      /\ Cardinality(DefStmts(code)) = 1
      /\ AsyncDefStmts(code) = {} )
    => /\ ret.k = "tuple2"
       /\ ret.fst = StrV(FirstDef(code).name)
       /\ [i \in 1..Len(ret.snd) |-> ret.snd[i].name]
            = [i \in 1..Len(FirstDef(code).params) |-> ArgNames[i]]

\* C7: for a float-tagged parameter every value a returned test case holds
\* is one of the seven alternatives computed over floatRange: min, min + span/4, 0, max - span/4,
\* max, or a random value of [min, min + span/2] or of [max/2, max].
C7_FloatOverFloatRange ==
    ( pc = "returned" /\ result.k = "list" ) =>
        \A c \in 1..Len(result.items) : \A i \in 1..Len(result.items[c]) :
            parameters[i].type = "float" =>
                LET lo == cfg.float_range[1]
                    hi == cfg.float_range[2]
                    v == result.items[c][i].value.f
                IN \/ v \in { lo, lo + (hi - lo) \div 4, 0, hi - (hi - lo) \div 4, hi }
                   \/ (lo <= v /\ v <= lo + (hi - lo) \div 2)
                   \/ (Min(hi \div 2, hi) <= v /\ v <= Max(hi \div 2, hi))

\* C8: for a parameter tagged Optional[T] the value is null or a T value made
\* from the configuration (an integer of intRange, a float of floatRange, a
\* string of length stringLength, 0 for any other T), and the populated
\* outcome is produced rather than an error.
C8_OptionalNullOrValue ==
    /\ ~( pc = "raised" /\ Branch(parameters[p].type) = "Optional" )
    /\ \A i \in Assigned :
          StartsWith(parameters[i].type, "Optional") =>
              LET T == SliceToLast(parameters[i].type, 9)
                  v == inputs[i].value
              IN \/ v = PyNone
                 \/ /\ T = "int"
                    /\ v.k = "int"
                    /\ cfg.int_range[1] <= v.i /\ v.i <= cfg.int_range[2]
                 \/ /\ T = "float"
                    /\ v.k = "float"
                    /\ cfg.float_range[1] <= v.f /\ v.f <= cfg.float_range[2]
                 \/ /\ T = "str"
                    /\ v.k = "str"
                    /\ Len(v.s) = cfg.string_length
                 \/ /\ T \notin {"int", "float", "str"}
                    /\ v = IntV(0)

\* C9: for a parameter annotated outer[inner], both bare names, the tag
\* parse_function_definition resolves is exactly the string "outer[inner]".
C9_SubscriptTagKeepsInner ==
    ParsedAFunction =>
        LET fn == FirstDef(code)
        IN \A d \in OrdinaryIdx(fn) :
              LET an == fn.params[d].ann
              IN ( /\ an.form = "sub"
                   /\ an.outer # ""
                   /\ Len(an.inner) = 1
                   /\ an.inner[1] # ""
                   /\ fn.params[d].dflt = "" )
                 => /\ ret.k = "tuple2"
                    /\ ret.snd[OutputPos(fn, d)].type = an.outer \o "[" \o an.inner[1] \o "]"

\* Every tag a call can be given: those of the direct calls and those the
\* extractor can resolve.
ExtractorTags ==
    { ParameterOf([arg |-> "a", annotation |-> AnnotationNode(an, ver)], d).type :
        an \in SrcAnnotations, ver \in PyAstVersions,
        d \in {PyNone, [node |-> "Constant", value |-> "1"]} }

\* Whether the outer name of a tag is a supported name in another letter case.
OuterDiffersInCaseOnly ==
    [ ty \in TypeTags \cup ExtractorTags |->
        /\ ToLower(OuterName(ty)) \in { ToLower(w) : w \in SupportedOuter }
        /\ OuterName(ty) \notin SupportedOuter ]

\* C10, as stated: the branch is chosen by a case-insensitive exact match on
\* the outer tag, so Int, STR and List[int] get the policy of int, str and
\* list, and listing, settings[x] and dictionary get the zero default.
C10_CaseInsensitiveExact ==
    \A i \in Assigned :
        LET b == BranchExactLower(parameters[i].type)
            v == inputs[i].value
        IN /\ b = "default" => v = IntV(0)
           /\ b \in {"int", "float", "bool", "list", "dict", "set", "tuple"} => v.k = b

\* C10, amended: the branch is chosen case-sensitively, by equality for int,
\* float, str and bool and by prefix for list, dict, set, tuple and Optional.
\* A tag whose outer name differs from a supported one only in letter case is
\* unrecognized and gets the zero default, as is one that merely begins with
\* int, float, str or bool; a tag that merely begins with list, dict, set or
\* tuple gets the list, dict, set or tuple policy.
C10_CaseSensitivePrefix ==
    \A i \in Assigned :
        LET ty == parameters[i].type
            v == inputs[i].value
        IN /\ OuterDiffersInCaseOnly[ty] => v = IntV(0)
           /\ ty \in {"int", "float", "bool"} => v.k = ty
           /\ ( /\ ty \notin {"int", "float", "str", "bool"}
                /\ \E w \in {"int", "float", "str", "bool"} : StartsWith(ty, w) )
              => v = IntV(0)
           /\ StartsWith(ty, "list") => v.k = "list"
           /\ StartsWith(ty, "dict") => v.k = "dict"
           /\ StartsWith(ty, "set") => v.k = "set"
           /\ StartsWith(ty, "tuple") => v.k = "tuple"

\* listing has been given a list and List[int] the zero default.
C10_Witness ==
    /\ pc = "returned"
    /\ Len(inputs) = 2
    /\ parameters[1].type = "listing"
    /\ inputs[1].value.k = "list"
    /\ parameters[2].type = "List[int]"
    /\ inputs[2].value = IntV(0)

====
